---- MODULE Spec2Model ----
(***************************************************************************)
(* State-machine model of maptoposter: the theme store (list_themes,       *)
(* load_theme), the road style classifier (get_edge_colors_by_type,        *)
(* get_edge_widths_by_type), the poster composer (create_poster) and the   *)
(* command-line entry point (create_map_poster.py).                        *)
(*                                                                         *)
(* Strings whose characters matter (file names, theme identifiers, the     *)
(* coordinate readout) are sequences of one-character strings.  Python     *)
(* None is the empty sequence and a present value x is <<x>>.              *)
(***************************************************************************)
EXTENDS Integers, Sequences, FiniteSets, TLC

VARIABLES
    themesDirExists,  \* os.path.exists(THEMES_DIR)
    themeFiles,       \* entries of THEMES_DIR: file name -> parsed content
    list_ret,         \* outcome of the last list_themes() call, or None
    load_arg,         \* argument of the last load_theme() call, or None
    load_ret,         \* outcome of the last load_theme() call, or None
    G,                \* the road graph: edge data in G.edges(data=True) order
    theme,            \* the theme record handed to the classifier
    edge_colors,      \* result of get_edge_colors_by_type(G, theme), or None
    edge_widths,      \* result of get_edge_widths_by_type(G), or None
    alt_theme,        \* a second theme handed to the classifier, or None
    alt_colors,       \* result of get_edge_colors_by_type(G, alt_theme), or None
    pc,               \* position of the create_poster run
    caller,           \* "lib": create_poster called directly, "cli": by the script
    job,              \* the arguments of create_poster
    theme_data,       \* create_poster: theme_data
    theme_name,       \* create_poster: theme_name
    geocode,          \* what geolocator.geocode returned, once called
    coords,           \* create_poster: coords, or None
    output_path,      \* create_poster: output_path, or None
    water_fetch,      \* outcome of the water features_from_point call, once called
    parks_fetch,      \* outcome of the parks features_from_point call, once called
    water,            \* create_poster: water (None, or the feature collection)
    parks,            \* create_poster: parks (None, or the feature collection)
    fetches,          \* the map-data requests issued, in order
    drawn,            \* the draw calls issued, in order
    coords_text,      \* create_poster: coords_text, or None
    dirs,             \* the output directories that exist
    written,          \* the files written, in order
    result,           \* outcome of create_poster (returned path or raised), or None
    argv,             \* the parsed command line of the script, or None
    exit_code,        \* exit status of the script, or None
    at_start          \* the themes directory and the output directories at Init

startVars == <<at_start>>
fsVars == <<themesDirExists, themeFiles>>
storeVars == <<list_ret, load_arg, load_ret>>
classVars == <<G, theme, edge_colors, edge_widths, alt_theme, alt_colors>>
runVars == <<pc, caller, job, theme_data, theme_name, geocode, coords,
             output_path, water_fetch, parks_fetch, water, parks, fetches,
             drawn, coords_text, result>>
outVars == <<dirs, written>>
cliVars == <<argv, exit_code>>
posterVars == <<runVars, outVars, cliVars>>
vars == <<startVars, fsVars, storeVars, classVars, posterVars>>

None == <<>>
Some(x) == <<x>>

\* Outcome of a call: a returned value or a raised exception.
\* msg holds what the exception message names.
Return(v) == [exc |-> "", msg |-> <<>>, val |-> <<v>>]
Raise(e) == [exc |-> e, msg |-> <<>>, val |-> <<>>]
RaiseMsg(e, m) == [exc |-> e, msg |-> m, val |-> <<>>]

(***************************************************************************)
(* Bounds                                                                  *)
(***************************************************************************)
MaxStemLen == 2
MaxFiles == 2
MaxEdges == 2
MaxListLen == 2

(***************************************************************************)
(* Strings                                                                 *)
(***************************************************************************)
\* Characters in increasing code-point order (Python compares str by code point).
CodePointOrder ==
    <<" ", "-", ".", "_", "a", "b", "c", "d", "e", "f", "g", "h", "i", "j",
      "k", "l", "m", "n", "o", "p", "q", "r", "s", "t", "u", "v", "w", "x",
      "y", "z">>

Ord(c) == CHOOSE i \in 1..Len(CodePointOrder) : CodePointOrder[i] = c

\* Python: a < b on str.
StrLess(a, b) ==
    \E i \in 1..(Len(a) + 1) :
        /\ i <= Len(b)
        /\ \A j \in 1..(i - 1) : a[j] = b[j]
        /\ \/ i = Len(a) + 1
           \/ Ord(a[i]) < Ord(b[i])

\* Python: s.endswith(suffix)
endswith(s, suffix) ==
    /\ Len(s) >= Len(suffix)
    /\ SubSeq(s, Len(s) - Len(suffix) + 1, Len(s)) = suffix

\* Python: s[:-n]
DropLast(s, n) == SubSeq(s, 1, Len(s) - n)

\* Python: sorted(names) for a collection of distinct str.
RECURSIVE sorted(_)
sorted(names) ==
    IF names = {} THEN <<>>
    ELSE LET least == CHOOSE m \in names : \A o \in names \ {m} : StrLess(m, o)
         IN  <<least>> \o sorted(names \ {least})

JsonExt == <<".", "j", "s", "o", "n">>

(***************************************************************************)
(* Theme records                                                           *)
(***************************************************************************)
RequiredColorKeys ==
    {"bg", "text", "gradient_color", "water", "parks",
     "road_motorway", "road_primary", "road_secondary", "road_tertiary",
     "road_residential", "road_default"}

RoadColorKeys ==
    {"road_motorway", "road_primary", "road_secondary", "road_tertiary",
     "road_residential", "road_default"}

\* The embedded default theme of load_theme.
FallbackTheme ==
    [name |-> "Feature-Based Shading",
     bg |-> "#FFFFFF",
     text |-> "#000000",
     gradient_color |-> "#FFFFFF",
     water |-> "#C0C0C0",
     parks |-> "#F0F0F0",
     road_motorway |-> "#0A0A0A",
     road_primary |-> "#1A1A1A",
     road_secondary |-> "#2A2A2A",
     road_tertiary |-> "#3A3A3A",
     road_residential |-> "#4A4A4A",
     road_default |-> "#3A3A3A"]

\* Contents of theme files: objects with the string fields of the theme
\* file format (name, description and the eleven colour fields).
ThemeFileContents ==
    {[name |-> "Noir", description |-> "Pure black background",
      bg |-> "#000000", text |-> "#FFFFFF", gradient_color |-> "#000000",
      water |-> "#0A0A0A", parks |-> "#111111",
      road_motorway |-> "#FFFFFF", road_primary |-> "#E0E0E0",
      road_secondary |-> "#B0B0B0", road_tertiary |-> "#808080",
      road_residential |-> "#505050", road_default |-> "#808080"],
     [name |-> "Blueprint", description |-> "Architectural blueprint",
      bg |-> "#1A3A5C", text |-> "#E8F4FF", gradient_color |-> "#1A3A5C",
      water |-> "#0F2840", parks |-> "#1E4570",
      road_motorway |-> "#E8F4FF", road_primary |-> "#C5DCF0",
      road_secondary |-> "#9FC5E8", road_tertiary |-> "#7BAED4",
      road_residential |-> "#5A96C0", road_default |-> "#7BAED4"]}

(***************************************************************************)
(* File system                                                             *)
(***************************************************************************)
StemChars == {"-", "a"}

RECURSIVE StrsOfLen(_, _)
StrsOfLen(chars, n) ==
    IF n = 0 THEN {<<>>}
    ELSE {<<c>> \o s : c \in chars, s \in StrsOfLen(chars, n - 1)}

\* Theme identifiers: file name stems without a path separator.
ThemeIds == UNION {StrsOfLen(StemChars, n) : n \in 1..MaxStemLen}

\* Endings of the entries of the themes directory.
FileEndings == {JsonExt, <<".", "t", "x", "t">>, <<"j", "s", "o", "n">>}

FileNames == {stem \o ending : stem \in ThemeIds, ending \in FileEndings}

\* os.path.exists(os.path.join(THEMES_DIR, name))
exists(name) == themesDirExists /\ name \in DOMAIN themeFiles

\* os.listdir(THEMES_DIR)
listdir == DOMAIN themeFiles

\* with open(path, 'r') as f: json.load(f)
json_load(name) ==
    IF exists(name) THEN Return(themeFiles[name])
    ELSE Raise("FileNotFoundError")

(***************************************************************************)
(* Theme store                                                             *)
(***************************************************************************)
\* list_themes_loop stripping four characters instead of the five of ".json".
RECURSIVE list_themes_loop_strip4(_, _)
list_themes_loop_strip4(files, themes) ==
    IF files = <<>> THEN themes
    ELSE LET file == Head(files)
         IN  IF endswith(file, JsonExt)
             THEN list_themes_loop_strip4(Tail(files), Append(themes, DropLast(file, 4)))
             ELSE list_themes_loop_strip4(Tail(files), themes)

\* The loop body of list_themes over the sorted directory listing.
RECURSIVE list_themes_loop(_, _)
list_themes_loop(files, themes) ==
    IF files = <<>> THEN themes
    ELSE LET file == Head(files)
         IN  IF endswith(file, JsonExt)
             THEN list_themes_loop(Tail(files), Append(themes, DropLast(file, 5)))
             ELSE list_themes_loop(Tail(files), themes)

list_themes ==
    IF ~themesDirExists THEN Return(<<>>)
    ELSE Return(list_themes_loop(sorted(listdir), <<>>))

\* load_theme without the os.path.exists guard.
load_theme_unguarded(theme_id) == json_load(theme_id \o JsonExt)

load_theme(theme_id) ==
    LET theme_file == theme_id \o JsonExt
    IN  IF ~exists(theme_file) THEN Return(FallbackTheme)
        ELSE json_load(theme_file)

(***************************************************************************)
(* Theme store specification: the directory is an input, the two calls     *)
(* are the actions.                                                        *)
(***************************************************************************)
ThemeDirStates ==
    UNION {[names -> ThemeFileContents] :
             names \in {s \in SUBSET FileNames : Cardinality(s) <= MaxFiles}}

\* The persistent state as the run finds it.
StartSnapshot ==
    at_start = [themesDirExists |-> themesDirExists, themeFiles |-> themeFiles,
                dirs |-> dirs]

StoreIdle ==
    /\ list_ret = None
    /\ load_arg = None
    /\ load_ret = None

ClassIdle ==
    /\ G = <<>>
    /\ theme = FallbackTheme
    /\ edge_colors = None
    /\ edge_widths = None
    /\ alt_theme = None
    /\ alt_colors = None

\* No create_poster run and no script invocation has started.
PosterIdle ==
    /\ pc = "idle"
    /\ caller = "lib"
    /\ job = None
    /\ theme_data = FallbackTheme
    /\ theme_name = None
    /\ geocode = None
    /\ coords = None
    /\ output_path = None
    /\ water_fetch = None
    /\ parks_fetch = None
    /\ water = None
    /\ parks = None
    /\ fetches = <<>>
    /\ drawn = <<>>
    /\ coords_text = None
    /\ result = None
    /\ dirs = {}
    /\ written = <<>>
    /\ argv = None
    /\ exit_code = None

InitThemes ==
    /\ themesDirExists \in BOOLEAN
    /\ themeFiles \in ThemeDirStates
    /\ (~themesDirExists => themeFiles = <<>>)
    /\ StoreIdle
    /\ ClassIdle
    /\ PosterIdle
    /\ StartSnapshot

CallListThemes ==
    /\ list_ret' = Some(list_themes)
    /\ UNCHANGED <<startVars, fsVars, load_arg, load_ret, classVars, posterVars>>

CallLoadTheme ==
    \E id \in ThemeIds :
        /\ load_arg' = Some(id)
        /\ load_ret' = Some(load_theme(id))
        /\ UNCHANGED <<startVars, fsVars, list_ret, classVars, posterVars>>

NextThemes == CallListThemes \/ CallLoadTheme

SpecThemes == InitThemes /\ [][NextThemes]_vars

Range(seq) == {seq[i] : i \in 1..Len(seq)}

\* Identifiers that have a theme file <id>.json in the themes directory.
IdsOnDisk == {id \in ThemeIds : exists(id \o JsonExt)}

(***************************************************************************)
(* C1: for every theme id without a file <id>.json in the themes directory *)
(* (the directory may be absent), load_theme(id) returns the built-in      *)
(* fallback record, which has 'bg', 'text' and the six road colour keys,   *)
(* and raises nothing.                                                     *)
(***************************************************************************)
C1_MissingThemeFallsBack ==
    (load_arg # None /\ ~exists(load_arg[1] \o JsonExt)) =>
        /\ load_ret[1].exc = ""
        /\ load_ret[1].val = <<FallbackTheme>>
        /\ ({"bg", "text"} \cup RoadColorKeys) \subseteq DOMAIN load_ret[1].val[1]

\* An unknown id was loaded from a themes directory that holds other themes.
C1_Witness ==
    /\ load_arg # None
    /\ themesDirExists
    /\ IdsOnDisk # {}
    /\ load_arg[1] \notin IdsOnDisk
    /\ load_ret[1].exc = ""

C3_ListIsSortedStems ==
    list_ret # None =>
        LET r == list_ret[1].val[1]
        IN  /\ list_ret[1].exc = ""
            /\ Range(r) = {DropLast(f, Len(JsonExt)) :
                             f \in {g \in DOMAIN themeFiles : endswith(g, JsonExt)}}
            /\ \A i, j \in 1..Len(r) : i < j => StrLess(r[i], r[j])
            /\ (~themesDirExists => r = <<>>)

(***************************************************************************)
(* Style classifier                                                        *)
(***************************************************************************)
\* The 'highway' entry of an edge's data dict: absent, a str or a list of str.
NoHighway == [kind |-> "absent", v |-> <<>>]
StrHighway(tok) == [kind |-> "str", v |-> <<tok>>]
ListHighway(toks) == [kind |-> "list", v |-> toks]

\* highway picking the last element of a list.
highway_of_last(data) ==
    IF data.kind = "absent" THEN "unclassified"
    ELSE IF data.kind = "list"
         THEN (IF data.v # <<>> THEN data.v[Len(data.v)] ELSE "unclassified")
         ELSE data.v[1]

\* highway = data.get('highway', 'unclassified'), a list replaced by its
\* first element or by 'unclassified' when it is empty.
highway_of(data) ==
    IF data.kind = "absent" THEN "unclassified"
    ELSE IF data.kind = "list"
         THEN (IF data.v # <<>> THEN data.v[1] ELSE "unclassified")
         ELSE data.v[1]

\* edge_color with the secondary tier reading the primary colour.
edge_color_secondary_as_primary(data, th) ==
    LET highway == highway_of(data)
    IN  IF highway \in {"motorway", "motorway_link"} THEN th.road_motorway
        ELSE IF highway \in {"trunk", "trunk_link", "primary", "primary_link"}
             THEN th.road_primary
        ELSE IF highway \in {"secondary", "secondary_link"} THEN th.road_primary
        ELSE IF highway \in {"tertiary", "tertiary_link"} THEN th.road_tertiary
        ELSE IF highway \in {"residential", "living_street", "unclassified"}
             THEN th.road_residential
        ELSE th.road_default

\* The colour get_edge_colors_by_type assigns to one edge.
edge_color(data, th) ==
    LET highway == highway_of(data)
    IN  IF highway \in {"motorway", "motorway_link"} THEN th.road_motorway
        ELSE IF highway \in {"trunk", "trunk_link", "primary", "primary_link"}
             THEN th.road_primary
        ELSE IF highway \in {"secondary", "secondary_link"} THEN th.road_secondary
        ELSE IF highway \in {"tertiary", "tertiary_link"} THEN th.road_tertiary
        ELSE IF highway \in {"residential", "living_street", "unclassified"}
             THEN th.road_residential
        ELSE th.road_default

\* The width get_edge_widths_by_type assigns to one edge (the float literal).
edge_width(data) ==
    LET highway == highway_of(data)
    IN  IF highway \in {"motorway", "motorway_link"} THEN "1.2"
        ELSE IF highway \in {"trunk", "trunk_link", "primary", "primary_link"}
             THEN "1.0"
        ELSE IF highway \in {"secondary", "secondary_link"} THEN "0.8"
        ELSE IF highway \in {"tertiary", "tertiary_link"} THEN "0.6"
        ELSE "0.4"

\* The colour loop skipping edges that carry no 'highway' entry.
RECURSIVE edge_colors_loop_skip(_, _, _)
edge_colors_loop_skip(edges, th, acc) ==
    IF edges = <<>> THEN acc
    ELSE IF Head(edges).kind = "absent"
         THEN edge_colors_loop_skip(Tail(edges), th, acc)
         ELSE edge_colors_loop_skip(Tail(edges), th,
                                    Append(acc, edge_color(Head(edges), th)))

\* for u, v, data in G.edges(data=True): ... edge_colors.append(color)
RECURSIVE edge_colors_loop(_, _, _)
edge_colors_loop(edges, th, acc) ==
    IF edges = <<>> THEN acc
    ELSE edge_colors_loop(Tail(edges), th, Append(acc, edge_color(Head(edges), th)))

get_edge_colors_by_type(graph, th) == edge_colors_loop(graph, th, <<>>)

\* for u, v, data in G.edges(data=True): ... edge_widths.append(width)
RECURSIVE edge_widths_loop(_, _)
edge_widths_loop(edges, acc) ==
    IF edges = <<>> THEN acc
    ELSE edge_widths_loop(Tail(edges), Append(acc, edge_width(Head(edges))))

get_edge_widths_by_type(graph) == edge_widths_loop(graph, <<>>)

(***************************************************************************)
(* Classifier specification: the graph and the theme are inputs, the       *)
(* classifier calls are the actions.                                       *)
(***************************************************************************)
HighwayTokens ==
    {"motorway", "motorway_link", "trunk", "trunk_link", "primary",
     "primary_link", "secondary", "secondary_link", "tertiary",
     "tertiary_link", "residential", "living_street", "unclassified",
     "service"}

\* Tokens that occur inside list-valued tags.
ListTokens == {"motorway", "trunk_link", "service"}

RECURSIVE TokenLists(_)
TokenLists(n) ==
    IF n = 0 THEN {<<>>}
    ELSE TokenLists(n - 1) \cup
         {Append(l, t) : l \in {m \in TokenLists(n - 1) : Len(m) = n - 1},
                         t \in ListTokens}

EdgeData ==
    {NoHighway} \cup {StrHighway(t) : t \in HighwayTokens}
                \cup {ListHighway(l) : l \in TokenLists(MaxListLen)}

RECURSIVE Graphs(_)
Graphs(n) ==
    IF n = 0 THEN {<<>>}
    ELSE Graphs(n - 1) \cup
         {Append(g, e) : g \in {h \in Graphs(n - 1) : Len(h) = n - 1},
                         e \in EdgeData}

ClassifierThemes ==
    {FallbackTheme} \cup {t \in ThemeFileContents : t.name = "Noir"}

\* Replacement values for road_primary; the second is the fallback theme's
\* road_secondary colour.
AltPrimaryColors == {"#FF0000", "#2A2A2A"}

FsIdle ==
    /\ themesDirExists = FALSE
    /\ themeFiles = <<>>

InitClassify ==
    /\ FsIdle
    /\ StoreIdle
    /\ G \in Graphs(MaxEdges)
    /\ theme \in ClassifierThemes
    /\ edge_colors = None
    /\ edge_widths = None
    /\ alt_theme = None
    /\ alt_colors = None
    /\ PosterIdle
    /\ StartSnapshot

CallEdgeColors ==
    /\ edge_colors' = Some(get_edge_colors_by_type(G, theme))
    /\ UNCHANGED <<startVars, fsVars, storeVars, posterVars, G, theme, edge_widths, alt_theme,
                   alt_colors>>

CallEdgeWidths ==
    /\ edge_widths' = Some(get_edge_widths_by_type(G))
    /\ UNCHANGED <<startVars, fsVars, storeVars, posterVars, G, theme, edge_colors, alt_theme,
                   alt_colors>>

\* The same graph classified under a theme that differs only in road_primary.
CallEdgeColorsAltTheme ==
    \E c \in AltPrimaryColors \ {theme.road_primary} :
        LET t2 == [theme EXCEPT !.road_primary = c]
        IN  /\ alt_theme' = Some(t2)
            /\ alt_colors' = Some(get_edge_colors_by_type(G, t2))
            /\ UNCHANGED <<startVars, fsVars, storeVars, posterVars, G, theme, edge_colors,
                           edge_widths>>

NextClassify == CallEdgeColors \/ CallEdgeWidths \/ CallEdgeColorsAltTheme

SpecClassify == InitClassify /\ [][NextClassify]_vars

\* The fixed tier table: tier of a normalised highway token.
TierOf(tok) ==
    CASE tok \in {"motorway", "motorway_link"} -> "motorway"
      [] tok \in {"trunk", "trunk_link", "primary", "primary_link"} -> "primary"
      [] tok \in {"secondary", "secondary_link"} -> "secondary"
      [] tok \in {"tertiary", "tertiary_link"} -> "tertiary"
      [] tok \in {"residential", "living_street", "unclassified"} -> "residential"
      [] OTHER -> "default"

TierColorKey(tier) == "road_" \o tier

TierWidth(tier) ==
    CASE tier = "motorway" -> "1.2"
      [] tier = "primary" -> "1.0"
      [] tier = "secondary" -> "0.8"
      [] tier = "tertiary" -> "0.6"
      [] OTHER -> "0.4"

\* The tag an edge is classified by: absent reads as 'unclassified', a list
\* as its first element, the empty list as 'unclassified'.
NormalisedTag(data) ==
    CASE data.kind = "str" -> data.v[1]
      [] data.kind = "list" /\ data.v # <<>> -> Head(data.v)
      [] OTHER -> "unclassified"

(***************************************************************************)
(* C4: the classifier yields one colour and one width per edge, the i-th   *)
(* colour and width being the style of the i-th edge in iteration order:   *)
(* nothing reordered, dropped or duplicated, both sequences as long as the *)
(* edge sequence.                                                          *)
(***************************************************************************)
C4_OnePairPerEdgeInOrder ==
    /\ edge_colors # None =>
          /\ Len(edge_colors[1]) = Len(G)
          /\ \A i \in 1..Len(G) :
                edge_colors[1][i] = theme[TierColorKey(TierOf(NormalisedTag(G[i])))]
    /\ edge_widths # None =>
          /\ Len(edge_widths[1]) = Len(G)
          /\ \A i \in 1..Len(G) :
                edge_widths[1][i] = TierWidth(TierOf(NormalisedTag(G[i])))

\* Two edges of different tiers, one without a tag, were classified.
C4_Witness ==
    /\ edge_colors # None
    /\ edge_widths # None
    /\ Len(G) = 2
    /\ G[1] = NoHighway
    /\ G[2] = StrHighway("motorway")
    /\ edge_colors[1] = <<theme.road_residential, theme.road_motorway>>
    /\ edge_widths[1] = <<"0.4", "1.2">>

(***************************************************************************)
(* C5 as stated: an edge whose highway tag is a list is classified (colour *)
(* and width) as a single tag equal to the list's first element, and an    *)
(* edge whose tag is the empty list gets the "default" tier: colour        *)
(* theme['road_default'] and the default-tier width.                       *)
(***************************************************************************)
C5_EmptyListIsDefaultTier ==
    \A i \in 1..Len(G) :
        G[i].kind = "list" =>
            LET tier == IF G[i].v # <<>> THEN TierOf(Head(G[i].v)) ELSE "default"
            IN  /\ edge_colors # None => edge_colors[1][i] = theme[TierColorKey(tier)]
                /\ edge_widths # None => edge_widths[1][i] = TierWidth(tier)

(***************************************************************************)
(* C5 amended: an edge whose highway tag is a list is classified (colour   *)
(* and width) as a single tag equal to the list's first element, and an    *)
(* edge whose tag is the empty list is classified as 'unclassified', which *)
(* is the residential tier: colour theme['road_residential'] and width     *)
(* 0.4, the width the default tier has too.                                *)
(***************************************************************************)
C5_EmptyListIsUnclassified ==
    \A i \in 1..Len(G) :
        G[i].kind = "list" =>
            LET tier == IF G[i].v # <<>> THEN TierOf(Head(G[i].v))
                        ELSE TierOf("unclassified")
            IN  /\ edge_colors # None =>
                      /\ edge_colors[1][i] = theme[TierColorKey(tier)]
                      /\ G[i].v = <<>> => edge_colors[1][i] = theme.road_residential
                /\ edge_widths # None =>
                      /\ edge_widths[1][i] = TierWidth(tier)
                      /\ G[i].v = <<>> => edge_widths[1][i] = TierWidth("default")

\* A two-element list whose elements are of different tiers and an empty
\* list were classified.
C5_Witness ==
    /\ edge_colors # None
    /\ edge_widths # None
    /\ Len(G) = 2
    /\ G[1] = ListHighway(<<"trunk_link", "motorway">>)
    /\ G[2] = ListHighway(<<>>)
    /\ edge_colors[1] = <<theme.road_primary, theme.road_residential>>
    /\ edge_widths[1] = <<"1.0", "0.4">>
    /\ theme.road_residential # theme.road_default

(***************************************************************************)
(* C6: for two themes that differ only in 'road_primary', the two colour   *)
(* sequences of the same edge set differ at exactly the positions of the   *)
(* primary-tier edges (normalised tag trunk, trunk_link, primary or        *)
(* primary_link) and agree at every other position.                        *)
(***************************************************************************)
C6_OnlyPrimaryPositionsChange ==
    (edge_colors # None /\ alt_colors # None) =>
        /\ Len(edge_colors[1]) = Len(alt_colors[1])
        /\ \A i \in 1..Len(G) :
              (edge_colors[1][i] # alt_colors[1][i]) <=>
                  NormalisedTag(G[i]) \in {"trunk", "trunk_link", "primary", "primary_link"}

\* A primary and a secondary edge were classified under two themes, the
\* second theme's road_primary being the first theme's road_secondary.
C6_Witness ==
    /\ edge_colors # None
    /\ alt_colors # None
    /\ Len(G) = 2
    /\ G[1] = StrHighway("primary")
    /\ G[2] = StrHighway("secondary")
    /\ alt_theme[1].road_primary = theme.road_secondary
    /\ alt_theme[1] = [theme EXCEPT !.road_primary = theme.road_secondary]
    /\ edge_colors[1][1] # alt_colors[1][1]
    /\ edge_colors[1][2] = alt_colors[1][2]

(***************************************************************************)
(* Poster composer                                                         *)
(***************************************************************************)
\* Python: c.lower() for the upper-case letters that occur in the cities.
lower_char(c) ==
    CASE c = "N" -> "n"
      [] c = "O" -> "o"
      [] c = "T" -> "t"
      [] c = "Y" -> "y"
      [] OTHER -> c

\* city_slug_of without the lower-casing.
city_slug_no_lower(city) ==
    [i \in 1..Len(city) |-> IF city[i] = " " THEN "_" ELSE city[i]]

\* city.lower().replace(' ', '_')
city_slug_of(city) ==
    [i \in 1..Len(city) |->
        IF lower_char(city[i]) = " " THEN "_" ELSE lower_char(city[i])]

\* f"{city_slug}_{theme_name}_{timestamp}.png", as the pieces of the f-string.
auto_filename(city, name, timestamp) ==
    <<city_slug_of(city), "_", name, "_", timestamp, ".png">>

\* makedirs_posters creating the posters directory whatever the output path.
makedirs_posters_always(out, d) == d \cup {"posters"}

\* if output_path is None: if not os.path.exists(POSTERS_DIR): os.makedirs(...)
makedirs_posters(out, d) == IF out = None THEN d \cup {"posters"} ELSE d

\* get_coordinates falling back to (0, 0) when the geocoder finds nothing.
get_coordinates_no_raise(city, country, location) ==
    IF location # None THEN Return(location[1])
    ELSE Return([lat |-> 0, lon |-> 0])

\* get_coordinates, given what geolocator.geocode returned (None: no match).
get_coordinates(city, country, location) ==
    IF location # None THEN Return(location[1])
    ELSE RaiseMsg("ValueError", <<city, country>>)

\* try_features letting the error of features_from_point escape.
try_features_unguarded(outcome) ==
    IF outcome.exc # "" THEN outcome ELSE Return(outcome.val)

\* try: x = ox.features_from_point(...)  except: x = None
try_features(outcome) ==
    IF outcome.exc # "" THEN Return(None) ELSE Return(outcome.val)

\* x is not None and not x.empty
layer_present(x) == x # None /\ x[1] # "empty"

Digit(d) == <<"0", "1", "2", "3", "4", "5", "6", "7", "8", "9">>[d + 1]

RECURSIVE DecimalDigits(_)
DecimalDigits(n) ==
    IF n < 10 THEN <<Digit(n)>>
    ELSE DecimalDigits(n \div 10) \o <<Digit(n % 10)>>

\* Python: f"{x:.4f}" for x given in units of 0.0001.
format_4f(x) ==
    LET mag == IF x < 0 THEN -x ELSE x
        frac == mag % 10000
    IN  (IF x < 0 THEN <<"-">> ELSE <<>>)
        \o DecimalDigits(mag \div 10000) \o <<".">>
        \o <<Digit(frac \div 1000), Digit((frac \div 100) % 10),
             Digit((frac \div 10) % 10), Digit(frac % 10)>>

\* Python: abs(x)
abs(x) == IF x < 0 THEN -x ELSE x

\* Python: s.replace(old, new) for one-character old and new.
replace(s, old, new) == [i \in 1..Len(s) |-> IF s[i] = old THEN new ELSE s[i]]

\* The coordinate readout; "deg" stands for the degree sign.
coords_text_of(lat, lon) ==
    LET text == IF lat >= 0
                THEN format_4f(lat) \o <<"deg", " ", "N", " ", "/", " ">>
                     \o format_4f(lon) \o <<"deg", " ", "E">>
                ELSE format_4f(abs(lat)) \o <<"deg", " ", "S", " ", "/", " ">>
                     \o format_4f(lon) \o <<"deg", " ", "E">>
    IN  IF lon < 0 THEN replace(text, "E", "W") ELSE text

Draw(op, z) == [op |-> op, zorder |-> z]

\* draw_calls issuing the road network before the water and park fills.
draw_calls_roads_first(w, p) ==
    <<Draw("roads", None)>>
    \o (IF layer_present(w) THEN <<Draw("water", Some(1))>> ELSE <<>>)
    \o (IF layer_present(p) THEN <<Draw("parks", Some(2))>> ELSE <<>>)
    \o <<Draw("gradient_bottom", Some(10)),
         Draw("gradient_top", Some(10)),
         Draw("city", Some(11)),
         Draw("country", Some(11)),
         Draw("coords", Some(11)),
         Draw("separator", Some(11)),
         Draw("attribution", Some(11))>>

\* The draw calls of create_poster in the order the code issues them.
draw_calls(w, p) ==
    (IF layer_present(w) THEN <<Draw("water", Some(1))>> ELSE <<>>)
    \o (IF layer_present(p) THEN <<Draw("parks", Some(2))>> ELSE <<>>)
    \o <<Draw("roads", None),
         Draw("gradient_bottom", Some(10)),
         Draw("gradient_top", Some(10)),
         Draw("city", Some(11)),
         Draw("country", Some(11)),
         Draw("coords", Some(11)),
         Draw("separator", Some(11)),
         Draw("attribution", Some(11))>>

(***************************************************************************)
(* Command-line entry point                                                *)
(***************************************************************************)
DefaultTheme ==
    <<"f", "e", "a", "t", "u", "r", "e", "_", "b", "a", "s", "e", "d">>

\* Python truthiness of an optional str: neither None nor ''.
truthy(opt) == opt # None /\ opt[1] # <<>>

\* cli_precheck without the membership test against list_themes().
cli_precheck_no_theme_check(a) ==
    IF a.bad_usage THEN Some(2)
    ELSE IF a.help THEN Some(0)
    ELSE IF a.no_args THEN Some(0)
    ELSE IF a.list_themes THEN Some(0)
    ELSE IF ~truthy(a.city) \/ ~truthy(a.country) THEN Some(1)
    ELSE IF load_theme(a.theme).exc # "" THEN Some(1)
    ELSE None

\* The script up to the create_poster call: the exit status it ends with,
\* or None when it goes on to generate.  parse_args exits with 2 on a usage
\* error and with 0 on -h/--help.
cli_precheck(a) ==
    IF a.bad_usage THEN Some(2)
    ELSE IF a.help THEN Some(0)
    ELSE IF a.no_args THEN Some(0)
    ELSE IF a.list_themes THEN Some(0)
    ELSE IF ~truthy(a.city) \/ ~truthy(a.country) THEN Some(1)
    ELSE IF a.theme \notin Range(list_themes.val[1]) THEN Some(1)
    ELSE IF load_theme(a.theme).exc # "" THEN Some(1)
    ELSE None

\* The try/except around create_poster: sys.exit(1) on any Exception.
cli_exit_status(outcome) == IF outcome.exc # "" THEN 1 ELSE 0

(***************************************************************************)
(* Inputs of the composer and of the script                                *)
(***************************************************************************)
Cities == {<<"O", "s", "l", "o">>, <<"N", "e", "w", " ", "Y", "o", "r", "k">>}

Countries == {<<"T", "e", "s", "t", "l", "a", "n", "d">>}

\* Coordinates in units of 0.0001 degree.
Coords ==
    {[lat |-> -338000, lon |-> 1512000], [lat |-> 407000, lon |-> -740000],
     [lat |-> 100000, lon |-> 200000], [lat |-> -229068, lon |-> -431729]}

Timestamps == {"20240101_120000", "20240101_120001"}

\* What ox.graph_from_point can do: return a graph or raise.
GraphOutcomes ==
    {Return(<<StrHighway("motorway"), StrHighway("motorway"),
              StrHighway("residential")>>),
     Return(<<ListHighway(<<>>), NoHighway>>),
     Raise("InsufficientResponseError")}

\* What ox.features_from_point can do: features, an empty collection, or
\* an error.
FeatureOutcomes ==
    {Return("features"), Return("empty"),
     Raise("InsufficientResponseError"), Raise("ConnectionError")}

StrTheme(id) == [id |-> Some(id), rec |-> None]
DictTheme(rec) == [id |-> None, rec |-> Some(rec)]

FallbackWithoutName ==
    [k \in DOMAIN FallbackTheme \ {"name"} |-> FallbackTheme[k]]

ThemeArgs ==
    {StrTheme(<<"a">>), StrTheme(<<"a", "a">>),
     DictTheme(FallbackTheme), DictTheme(FallbackWithoutName)}

OutputPathArgs ==
    {None, Some([dir |-> ".", name |-> "poster.png"]),
     Some([dir |-> "out", name |-> "poster.png"])}

LibJobs ==
    [city : Cities, country : Countries, theme : ThemeArgs,
     output_path : OutputPathArgs]

CliThemes == {DefaultTheme, <<"a">>, <<"a", "-">>}

CliStrings == {None, Some(<<>>)}

CliArgs ==
    [no_args : {FALSE}, help : BOOLEAN, bad_usage : BOOLEAN,
     list_themes : BOOLEAN,
     city : CliStrings \cup {Some(<<"O", "s", "l", "o">>)},
     country : CliStrings \cup {Some(c) : c \in Countries},
     theme : CliThemes]
    \cup {[no_args |-> TRUE, help |-> FALSE, bad_usage |-> FALSE,
           list_themes |-> FALSE, city |-> None, country |-> None,
           theme |-> DefaultTheme]}

\* Themes directories of the composer runs.
PosterThemeDirs ==
    LET noir == CHOOSE t \in ThemeFileContents : t.name = "Noir"
        blue == CHOOSE t \in ThemeFileContents : t.name = "Blueprint"
    IN  {<<>>,
         (DefaultTheme \o JsonExt :> blue) @@ (<<"a">> \o JsonExt :> noir),
         (<<"a", "-">> \o JsonExt :> noir) @@ (<<"a", ".", "t", "x", "t">> :> blue)}

OutputDirs == {"posters", "out"}

(***************************************************************************)
(* Composer and script specification                                       *)
(***************************************************************************)
Init ==
    /\ themesDirExists \in BOOLEAN
    /\ themeFiles \in PosterThemeDirs
    /\ (~themesDirExists => themeFiles = <<>>)
    /\ StoreIdle
    /\ ClassIdle
    /\ pc = "idle"
    /\ caller = "lib"
    /\ job = None
    /\ theme_data = FallbackTheme
    /\ theme_name = None
    /\ geocode = None
    /\ coords = None
    /\ output_path = None
    /\ water_fetch = None
    /\ parks_fetch = None
    /\ water = None
    /\ parks = None
    /\ fetches = <<>>
    /\ drawn = <<>>
    /\ coords_text = None
    /\ result = None
    /\ dirs \in SUBSET OutputDirs
    /\ written = <<>>
    /\ argv = None
    /\ exit_code = None
    /\ StartSnapshot

\* create_poster up to the coordinate lookup: the theme is loaded by name or
\* taken as given.
Enter(j, who) ==
    LET loaded == IF j.theme.id # None THEN load_theme(j.theme.id[1])
                  ELSE Return(j.theme.rec[1])
        name == IF j.theme.id # None THEN j.theme.id[1]
                ELSE IF "name" \in DOMAIN j.theme.rec[1]
                     THEN j.theme.rec[1].name ELSE "custom"
    IN  /\ job' = Some(j)
        /\ caller' = who
        /\ IF loaded.exc = ""
           THEN /\ theme_data' = loaded.val[1]
                /\ theme_name' = Some(name)
                /\ pc' = "resolve"
                /\ result' = None
           ELSE /\ pc' = "raised"
                /\ result' = Some(loaded)
                /\ UNCHANGED <<theme_data, theme_name>>
        /\ UNCHANGED <<geocode, coords, output_path, water_fetch, parks_fetch,
                       water, parks, fetches, drawn, coords_text, outVars>>

\* create_poster(city, country, theme, output_path=...) called as a library.
LibCall ==
    /\ pc = "idle"
    /\ argv = None
    /\ \E j \in LibJobs : Enter(j, "lib")
    /\ UNCHANGED <<startVars, fsVars, storeVars, classVars, cliVars>>

\* The script: argument parsing and validation, then the create_poster call.
CliInvoke ==
    /\ pc = "idle"
    /\ argv = None
    /\ \E a \in CliArgs :
          /\ argv' = Some(a)
          /\ IF cli_precheck(a) # None
             THEN /\ exit_code' = cli_precheck(a)
                  /\ UNCHANGED <<runVars, outVars>>
             ELSE /\ exit_code' = None
                  /\ Enter([city |-> a.city[1], country |-> a.country[1],
                            theme |-> StrTheme(a.theme), output_path |-> None],
                           "cli")
    /\ UNCHANGED <<startVars, fsVars, storeVars, classVars>>

\* coords = get_coordinates(city, country), then the output path is settled.
Resolve ==
    /\ pc = "resolve"
    /\ \E location \in {None} \cup {Some(c) : c \in Coords} :
          LET r == get_coordinates(job[1].city, job[1].country, location)
          IN  /\ geocode' = Some(location)
              /\ IF r.exc # ""
                 THEN /\ pc' = "raised"
                      /\ result' = Some(r)
                      /\ UNCHANGED <<coords, output_path, dirs>>
                 ELSE /\ pc' = "fetch_graph"
                      /\ coords' = Some(r.val[1])
                      /\ UNCHANGED result
                      /\ dirs' = makedirs_posters(job[1].output_path, dirs)
                      /\ IF job[1].output_path = None
                         THEN \E timestamp \in Timestamps :
                                 output_path' =
                                     Some([dir |-> "posters",
                                           name |-> auto_filename(job[1].city,
                                                                  theme_name[1],
                                                                  timestamp)])
                         ELSE output_path' = job[1].output_path
    /\ UNCHANGED <<startVars, fsVars, storeVars, classVars, cliVars, caller, job, theme_data,
                   theme_name, water_fetch, parks_fetch, water, parks, fetches,
                   drawn, coords_text, written>>

\* G = ox.graph_from_point(...)
FetchGraph ==
    /\ pc = "fetch_graph"
    /\ fetches' = Append(fetches, "graph")
    /\ \E o \in GraphOutcomes :
          IF o.exc # ""
          THEN /\ pc' = "raised"
               /\ result' = Some(o)
               /\ UNCHANGED G
          ELSE /\ pc' = "fetch_water"
               /\ G' = o.val[1]
               /\ UNCHANGED result
    /\ UNCHANGED <<startVars, fsVars, storeVars, cliVars, outVars, theme, edge_colors,
                   edge_widths, alt_theme, alt_colors, caller, job, theme_data,
                   theme_name, geocode, coords, output_path, water_fetch,
                   parks_fetch, water, parks, drawn, coords_text>>

\* water = ox.features_from_point(...) under try/except
FetchWater ==
    /\ pc = "fetch_water"
    /\ fetches' = Append(fetches, "water")
    /\ \E o \in FeatureOutcomes :
          LET r == try_features(o)
          IN  /\ water_fetch' = Some(o)
              /\ IF r.exc # ""
                 THEN /\ pc' = "raised"
                      /\ result' = Some(r)
                      /\ UNCHANGED water
                 ELSE /\ pc' = "fetch_parks"
                      /\ water' = r.val[1]
                      /\ UNCHANGED result
    /\ UNCHANGED <<startVars, fsVars, storeVars, classVars, cliVars, outVars, caller, job,
                   theme_data, theme_name, geocode, coords, output_path,
                   parks_fetch, parks, drawn, coords_text>>

\* parks = ox.features_from_point(...) under try/except
FetchParks ==
    /\ pc = "fetch_parks"
    /\ fetches' = Append(fetches, "parks")
    /\ \E o \in FeatureOutcomes :
          LET r == try_features(o)
          IN  /\ parks_fetch' = Some(o)
              /\ IF r.exc # ""
                 THEN /\ pc' = "raised"
                      /\ result' = Some(r)
                      /\ UNCHANGED parks
                 ELSE /\ pc' = "render"
                      /\ parks' = r.val[1]
                      /\ UNCHANGED result
    /\ UNCHANGED <<startVars, fsVars, storeVars, classVars, cliVars, outVars, caller, job,
                   theme_data, theme_name, geocode, coords, output_path,
                   water_fetch, water, drawn, coords_text>>

\* The figure is set up, the edges are classified and everything is drawn.
Render ==
    /\ pc = "render"
    /\ theme' = theme_data
    /\ edge_colors' = Some(get_edge_colors_by_type(G, theme_data))
    /\ edge_widths' = Some(get_edge_widths_by_type(G))
    /\ coords_text' = Some(coords_text_of(coords[1].lat, coords[1].lon))
    /\ drawn' = draw_calls(water, parks)
    /\ pc' = "save"
    /\ UNCHANGED <<startVars, fsVars, storeVars, cliVars, outVars, G, alt_theme, alt_colors,
                   caller, job, theme_data, theme_name, geocode, coords,
                   output_path, water_fetch, parks_fetch, water, parks, fetches,
                   result>>

\* plt.savefig(output_path, ...) and the return of the path; savefig cannot
\* create a file in a directory that does not exist.
Save ==
    /\ pc = "save"
    /\ IF output_path[1].dir = "." \/ output_path[1].dir \in dirs
       THEN /\ written' = Append(written, output_path[1])
            /\ result' = Some(Return(output_path[1]))
            /\ pc' = "returned"
       ELSE /\ result' = Some(Raise("FileNotFoundError"))
            /\ pc' = "raised"
            /\ UNCHANGED written
    /\ UNCHANGED <<startVars, fsVars, storeVars, classVars, cliVars, dirs, caller, job,
                   theme_data, theme_name, geocode, coords, output_path,
                   water_fetch, parks_fetch, water, parks, fetches, drawn,
                   coords_text>>

\* The script after create_poster returned or raised.
CliExit ==
    /\ caller = "cli"
    /\ pc \in {"returned", "raised"}
    /\ exit_code = None
    /\ exit_code' = Some(cli_exit_status(result[1]))
    /\ UNCHANGED <<startVars, fsVars, storeVars, classVars, runVars, outVars, argv>>

Next ==
    \/ LibCall
    \/ CliInvoke
    \/ Resolve
    \/ FetchGraph
    \/ FetchWater
    \/ FetchParks
    \/ Render
    \/ Save
    \/ CliExit

Spec == Init /\ [][Next]_vars

\* The names of the draw calls issued.
DrawnOps == {drawn[i].op : i \in 1..Len(drawn)}

(***************************************************************************)
(* C7: for every resolved coordinate (lat, lon) the coordinate readout is  *)
(* '<|lat| to 4 decimals>deg <N|S> / <|lon| to 4 decimals>deg <E|W>' with  *)
(* no minus sign in either number, N when lat >= 0 and S otherwise, E when *)
(* lon >= 0 and W otherwise; (-33.8, 151.2) gives '33.8000deg S /          *)
(* 151.2000deg E' and (40.7, -74.0) gives '40.7000deg N / 74.0000deg W'.   *)
(***************************************************************************)
C7_ReadoutIsUnsignedWithHemispheres ==
    coords_text # None =>
        LET lat == coords[1].lat
            lon == coords[1].lon
        IN  /\ coords_text[1] =
                   format_4f(abs(lat))
                   \o <<"deg", " ", IF lat >= 0 THEN "N" ELSE "S", " ", "/", " ">>
                   \o format_4f(abs(lon))
                   \o <<"deg", " ", IF lon >= 0 THEN "E" ELSE "W">>
            /\ \A i \in 1..Len(coords_text[1]) : coords_text[1][i] # "-"
            /\ (lat = 407000 /\ lon = -740000) =>
                   coords_text[1] = <<"4", "0", ".", "7", "0", "0", "0", "deg", " ",
                                      "N", " ", "/", " ", "7", "4", ".", "0", "0",
                                      "0", "0", "deg", " ", "W">>

(***************************************************************************)
(* C8: whenever the location resolver returns no match for (city,          *)
(* country), create_poster aborts by raising a resolution-failure error    *)
(* that names the unresolved place, and in that run no map-data fetch is   *)
(* issued, nothing is drawn and no output file is written.                 *)
(***************************************************************************)
C8_NoMatchAbortsBeforeAnyWork ==
    (geocode # None /\ geocode[1] = None) =>
        /\ pc = "raised"
        /\ result # None
        /\ result[1].exc = "ValueError"
        /\ result[1].msg = <<job[1].city, job[1].country>>
        /\ fetches = <<>>
        /\ drawn = <<>>
        /\ written = <<>>

\* The geocoder found nothing and the run ended with the error.
C8_Witness ==
    /\ geocode # None
    /\ geocode[1] = None
    /\ pc = "raised"
    /\ result # None
    /\ result[1].exc = "ValueError"

(***************************************************************************)
(* C9: whatever the water fetch and the park fetch do (features, an empty  *)
(* collection, or any error), once the coordinates and the road graph were *)
(* obtained create_poster raises no error from these fetches, omits        *)
(* exactly the layers whose fetch failed or came back empty, still draws   *)
(* the road layer and goes on to the export.                               *)
(***************************************************************************)
C9_FeatureFailuresOnlyOmitLayers ==
    /\ (water_fetch # None /\ parks_fetch = None) => pc = "fetch_parks"
    /\ parks_fetch # None =>
          /\ pc \in {"render", "save", "returned", "raised"}
          /\ pc = "raised" =>
                /\ drawn # <<>>
                /\ result[1].exc = "FileNotFoundError"
          /\ pc \in {"save", "returned"} => drawn # <<>>
    /\ drawn # <<>> =>
          /\ "water" \in DrawnOps <=> water_fetch[1] = Return("features")
          /\ "parks" \in DrawnOps <=> parks_fetch[1] = Return("features")
          /\ "roads" \in DrawnOps

\* The water fetch failed, the park fetch came back empty, and the poster
\* was exported with the road layer alone.
C9_Witness ==
    /\ pc = "returned"
    /\ water_fetch # None
    /\ water_fetch[1].exc = "ConnectionError"
    /\ parks_fetch # None
    /\ parks_fetch[1] = Return("empty")
    /\ "roads" \in DrawnOps
    /\ "water" \notin DrawnOps
    /\ "parks" \notin DrawnOps
    /\ Len(written) = 1

\* The conditions C10 names: a required argument is missing, the theme is
\* not listed, or create_poster raised.
CliFailureCondition ==
    \/ argv[1].city = None
    \/ argv[1].country = None
    \/ argv[1].theme \notin Range(list_themes.val[1])
    \/ (result # None /\ result[1].exc # "")

OutputDir == output_path[1].dir

\* The themes directory and its files are as the run found them.
ThemesUntouched ==
    /\ themesDirExists = at_start.themesDirExists
    /\ themeFiles = at_start.themeFiles

ExpectedSlug(city) ==
    replace([i \in 1..Len(city) |-> lower_char(city[i])], " ", "_")

(***************************************************************************)
(* C12 as stated: every successful run returns the path of the file it     *)
(* wrote: the caller's output_path unchanged when one is given, otherwise  *)
(* a path in the posters directory with the file name                      *)
(* '<city_slug>_<theme>_<timestamp>.png', city_slug being the lower-cased  *)
(* city with spaces replaced by underscores and <theme> the theme          *)
(* identifier of the job.                                                  *)
(***************************************************************************)
C12_ReturnsPathNamedByThemeId ==
    pc = "returned" =>
        /\ result[1].exc = ""
        /\ Len(written) = 1
        /\ result[1].val = <<written[1]>>
        /\ IF job[1].output_path # None
           THEN result[1].val = job[1].output_path
           ELSE LET path == result[1].val[1]
                IN  /\ path.dir = "posters"
                    /\ Len(path.name) = 6
                    /\ path.name[1] = ExpectedSlug(job[1].city)
                    /\ path.name[2] = "_"
                    /\ job[1].theme.id # None
                    /\ path.name[3] = job[1].theme.id[1]
                    /\ path.name[4] = "_"
                    /\ path.name[5] \in Timestamps
                    /\ path.name[6] = ".png"

\* What the file name carries for the theme: the identifier of a theme
\* given by id, the 'name' entry of an inline record, 'custom' without one.
ExpectedThemeLabel(th) ==
    IF th.id # None THEN th.id[1]
    ELSE IF "name" \in DOMAIN th.rec[1] THEN th.rec[1].name ELSE "custom"

(***************************************************************************)
(* C12 amended: every successful run returns the path of the file it       *)
(* wrote: the caller's output_path unchanged when one is given, otherwise  *)
(* a path in the posters directory with the file name                      *)
(* '<city_slug>_<theme>_<timestamp>.png', city_slug being the lower-cased  *)
(* city with spaces replaced by underscores and <theme> the theme          *)
(* identifier when the job names its theme by identifier, and the 'name'   *)
(* entry of the record ('custom' if it has none) when the job carries an   *)
(* inline theme record.                                                    *)
(***************************************************************************)
C12_ReturnsPathNamedByThemeLabel ==
    pc = "returned" =>
        /\ result[1].exc = ""
        /\ Len(written) = 1
        /\ result[1].val = <<written[1]>>
        /\ IF job[1].output_path # None
           THEN result[1].val = job[1].output_path
           ELSE LET path == result[1].val[1]
                IN  /\ path.dir = "posters"
                    /\ Len(path.name) = 6
                    /\ path.name[1] = ExpectedSlug(job[1].city)
                    /\ path.name[2] = "_"
                    /\ path.name[3] = ExpectedThemeLabel(job[1].theme)
                    /\ path.name[4] = "_"
                    /\ path.name[5] \in Timestamps
                    /\ path.name[6] = ".png"
                    /\ job[1].city = <<"N", "e", "w", " ", "Y", "o", "r", "k">> =>
                           path.name[1] = <<"n", "e", "w", "_", "y", "o", "r", "k">>

\* A run for "New York" with an inline theme record without a 'name' entry
\* returned an auto-generated path.
C12_Witness ==
    /\ pc = "returned"
    /\ job[1].output_path = None
    /\ job[1].city = <<"N", "e", "w", " ", "Y", "o", "r", "k">>
    /\ job[1].theme.id = None
    /\ result[1].val[1].dir = "posters"
    /\ result[1].val[1].name[1] = <<"n", "e", "w", "_", "y", "o", "r", "k">>
    /\ result[1].val[1].name[3] = "custom"

\* The elements every rendering draws.
RequiredOps ==
    {"roads", "gradient_bottom", "gradient_top", "city", "country",
     "separator", "coords", "attribution"}

\* The place of each element in the order the code issues the calls.
IssuedRank(op) ==
    CASE op = "water" -> 1
      [] op = "parks" -> 2
      [] op = "roads" -> 3
      [] op = "gradient_bottom" -> 4
      [] op = "gradient_top" -> 5
      [] op = "city" -> 6
      [] op = "country" -> 7
      [] op = "coords" -> 8
      [] op = "separator" -> 9
      [] op = "attribution" -> 10

\* Every required element is drawn, nothing is drawn twice, and nothing is
\* exported before the drawing.
DrawnOnceBeforeExport ==
    /\ drawn # <<>> =>
          /\ RequiredOps \subseteq DrawnOps
          /\ \A i, j \in 1..Len(drawn) : i # j => drawn[i].op # drawn[j].op
    /\ written # <<>> => RequiredOps \subseteq DrawnOps

====
